---------------------------- MODULE Spec2Model ----------------------------
(***************************************************************************)
(* Model of src/api_clients.py: the image encoder pil2base64 and the two   *)
(* query functions get_openai_output and get_gemini_output, together with  *)
(* the parts of their surroundings they read or call: the process          *)
(* environment, the providers' live model catalogs, the vendor calls (whose *)
(* outcome is a nondeterministic choice) and the process-wide              *)
(* configuration of the google.generativeai module.                        *)
(***************************************************************************)
EXTENDS Integers, Sequences, FiniteSets, TLC

VARIABLES
    env,                \* os.environ: variable name -> value, None when unset
    catalog,            \* provider -> the model ids it advertises right now
    genai_api_key,      \* the key genai.configure stored process-wide
    pc,                 \* thread -> position in the query function
    call,               \* thread -> the arguments of the running call
    api_key,            \* thread -> local api_key
    client_key,         \* thread -> credential held by the local OpenAI client
    supported_models,   \* thread -> local supported_models
    outcome,            \* thread -> what the call gave its caller
    failed_at,          \* thread -> the step whose failure ended the call
    listCalls,          \* thread -> list-models calls issued by the running call
    genCalls,           \* thread -> generate-content calls issued by it
    bitmap,             \* the encoder's input (encoder specification)
    encoded             \* what pil2base64 gave for it

queryVars == <<env, catalog, genai_api_key, pc, call, api_key, client_key,
               supported_models, outcome, failed_at, listCalls, genCalls>>
encVars == <<bitmap, encoded>>
vars == <<queryVars, encVars>>

-----------------------------------------------------------------------------
(* Bounds *)

\* The largest number of pixels (width * height) of an encoder input.
MaxPixels == 2

-----------------------------------------------------------------------------
(* Python values *)

None == "<None>"

Range(s) == {s[i] : i \in 1..Len(s)}

\* str(e) is kept as a sequence of text pieces; an f-string concatenates them.
Returned(v) == [kind |-> "return", type |-> "-", msg |-> <<>>, value |-> v]
Raised(type, msg, empty) == [kind |-> "raise", type |-> type, msg |-> msg, value |-> empty]

\* The part of the built-in exception hierarchy the code's handlers decide on.
ExcParent ==
    [ Exception       |-> "BaseException",
      LookupError     |-> "Exception",
      IndexError      |-> "LookupError",
      KeyError        |-> "LookupError",
      OSError         |-> "Exception",
      ConnectionError |-> "OSError",
      RuntimeError    |-> "Exception",
      ValueError      |-> "Exception" ]

RECURSIVE IsInstance(_, _)
IsInstance(type, cls) ==
    IF type = cls THEN TRUE
    ELSE IF type \notin DOMAIN ExcParent THEN FALSE
    ELSE IsInstance(ExcParent[type], cls)

\* EnvironmentError is an alias of OSError.
EnvironmentError == "OSError"

-----------------------------------------------------------------------------
(* base64.b64encode, RFC 4648 *)

B64Alphabet ==
    << "A","B","C","D","E","F","G","H","I","J","K","L","M",
       "N","O","P","Q","R","S","T","U","V","W","X","Y","Z",
       "a","b","c","d","e","f","g","h","i","j","k","l","m",
       "n","o","p","q","r","s","t","u","v","w","x","y","z",
       "0","1","2","3","4","5","6","7","8","9","+","/" >>

B64Group(g) ==
    LET n  == Len(g)
        b1 == g[1]
        b2 == IF n >= 2 THEN g[2] ELSE 0
        b3 == IF n >= 3 THEN g[3] ELSE 0
    IN  << B64Alphabet[(b1 \div 4) + 1],
           B64Alphabet[((b1 % 4) * 16 + (b2 \div 16)) + 1],
           IF n >= 2 THEN B64Alphabet[((b2 % 16) * 4 + (b3 \div 64)) + 1] ELSE "=",
           IF n >= 3 THEN B64Alphabet[(b3 % 64) + 1] ELSE "=" >>

RECURSIVE b64encode(_)
b64encode(bytes) ==
    IF Len(bytes) = 0 THEN <<>>
    ELSE IF Len(bytes) <= 3 THEN B64Group(bytes)
    ELSE B64Group(SubSeq(bytes, 1, 3)) \o b64encode(SubSeq(bytes, 4, Len(bytes)))

-----------------------------------------------------------------------------
(* Image.save(stream, format="PNG") *)

\* An image is [mode, size = <<width, height>>, data]: data holds the pixels
\* row by row, each pixel the tuple of its band values.

\* The modes the PNG writer stores, with bit depth and PNG colour type.
\* A 32-bit "I" image is written as 16-bit greyscale.
PngOutModes ==
    [ L   |-> [depth |-> 8,  ctype |-> 0],
      RGB |-> [depth |-> 8,  ctype |-> 2],
      I   |-> [depth |-> 16, ctype |-> 0] ]

PngSignature == <<137, 80, 78, 71, 13, 10, 26, 10>>

BE32(n) == << (n \div 16777216) % 256, (n \div 65536) % 256, (n \div 256) % 256, n % 256 >>

\* 16-bit big-endian packing of a 32-bit sample clips it to 0..65535.
PackI16B(v) ==
    LET c == IF v <= 0 THEN 0 ELSE IF v > 65535 THEN 65535 ELSE v
    IN  << c \div 256, c % 256 >>

PackPixel(mode, px) ==
    IF mode = "I" THEN PackI16B(px[1]) ELSE px

RECURSIVE PackRow(_, _, _, _)
PackRow(mode, data, from, to) ==
    IF from > to THEN <<>>
    ELSE PackPixel(mode, data[from]) \o PackRow(mode, data, from + 1, to)

\* Scanlines: each row is a filter byte (0, none) and its packed samples.
\* The deflate stream around them is lossless and is left out.
RECURSIVE PngScanlines(_, _)
PngScanlines(im, row) ==
    IF row > im.size[2] THEN <<>>
    ELSE <<0>> \o PackRow(im.mode, im.data, (row - 1) * im.size[1] + 1, row * im.size[1])
             \o PngScanlines(im, row + 1)

PngBytes(im) ==
    PngSignature
        \o BE32(im.size[1]) \o BE32(im.size[2])
        \o <<PngOutModes[im.mode].depth, PngOutModes[im.mode].ctype>>
        \o PngScanlines(im, 1)

\* save() raises OSError for a mode the PNG writer does not know.
PngSave(im) ==
    IF im.mode \in DOMAIN PngOutModes
    THEN Returned(PngBytes(im))
    ELSE Raised("OSError", <<"cannot write mode ", im.mode, " as PNG">>, <<>>)

-----------------------------------------------------------------------------
(* pil2base64 *)

\* The same without the try/except around it.
pil2base64Unguarded(pil_image) ==
    LET saved == PngSave(pil_image)
    IN  IF saved.kind = "return"
        THEN Returned(b64encode(saved.value))
        ELSE Raised(saved.type, saved.msg, <<>>)

pil2base64(pil_image) ==
    LET saved == PngSave(pil_image)
    IN  IF saved.kind = "return"
        THEN Returned(b64encode(saved.value))
        ELSE Raised("RuntimeError",
                    <<"Failed to convert image to base64: ">> \o saved.msg, <<>>)

-----------------------------------------------------------------------------
(* The surroundings of the query functions *)

Threads == {"t1", "t2"}
Functions == {"get_openai_output", "get_gemini_output"}

EnvVar(fn) == IF fn = "get_openai_output" THEN "OPENAI_API_KEY" ELSE "GOOGLE_API_KEY"
EnvVars == {EnvVar(fn) : fn \in Functions}
Keys == {"k1", "k2"}
EnvValues == {None, ""} \cup Keys

Models == {"m1", "m2", "m3"}
Catalogs == {<<"m1">>, <<"m2", "m1">>}
StartCatalog == <<"m1">>

Prompts == {"describe", "count"}
Texts == {"hello", "", " hi ", None}
TokenArgs == {<<>>, <<50>>}

GoodImage == [mode |-> "L", size |-> <<1, 1>>, data |-> << <<7>> >>]
BadImage == [mode |-> "CMYK", size |-> <<1, 1>>, data |-> << <<0, 0, 0, 0>> >>]
QueryImages == {GoodImage, BadImage}

\* What a vendor call may raise: a transport failure, and a failure while
\* the SDK reads a malformed reply.
VendorErrors ==
    { [type |-> "ConnectionError", msg |-> <<"connection refused">>],
      [type |-> "KeyError", msg |-> <<"'data'">>] }

\* genai before any configure().
Unconfigured == "<unconfigured>"

NoOutcome == [kind |-> "none", type |-> "-", msg |-> <<>>, value |-> None]
NoFailure == [step |-> "-", type |-> "-", msg |-> <<>>]
NoCall == [fn |-> "-", pil_image |-> GoodImage, prompt |-> "-", model |-> "-",
           max_tokens |-> 0, given |-> <<>>]
NoResponse == [none |-> TRUE]
NotEncoded == [kind |-> "none", type |-> "-", msg |-> <<>>, value |-> <<>>]

-----------------------------------------------------------------------------
(* get_openai_output and get_gemini_output *)

DefaultMaxTokens == 300

\* Binding of the optional fourth parameter.
BindMaxTokens(given) == IF given = <<>> THEN DefaultMaxTokens ELSE given[1]

\* The credential test left out.
MissingKeyNever(v) == FALSE

\* `if not api_key`
MissingKey(v) == v = None \/ v = ""

MissingKeyError(fn) ==
    Raised(EnvironmentError,
           IF fn = "get_openai_output"
           THEN <<"OpenAI API key is missing. Set 'OPENAI_API_KEY' in environment variables.">>
           ELSE <<"Google API key is missing. Set 'GOOGLE_API_KEY' in environment variables.">>,
           None)

\* The except clauses: a LookupError is re-raised as it is, any other
\* Exception becomes a RuntimeError holding its message.
FailurePrefix(fn) ==
    IF fn = "get_openai_output" THEN "Failed to generate OpenAI output: "
    ELSE "Failed to generate Gemini output: "

\* The handlers without the `except LookupError` clause.
HandlerWrapAll(fn, e) ==
    IF IsInstance(e.type, "Exception")
    THEN Raised("RuntimeError", <<FailurePrefix(fn)>> \o e.msg, None)
    ELSE e

Handler(fn, e) ==
    IF IsInstance(e.type, "LookupError") THEN e
    ELSE IF IsInstance(e.type, "Exception")
    THEN Raised("RuntimeError", <<FailurePrefix(fn)>> \o e.msg, None)
    ELSE e

\* A catalog kept from the start of the process.
CatalogAtStartup(fn) == StartCatalog

\* The catalog a list-models call returns: the provider's current one.
LiveCatalog(fn) == catalog[fn]

\* client.models.list().data / genai.list_models(): one entry per model.
ModelInfos(ids) == [i \in 1..Len(ids) |-> [id |-> ids[i]]]

\* [model_info.id for model_info in ...]
ModelIds(infos) == [i \in 1..Len(infos) |-> infos[i].id]

\* `model not in supported_models`
NotSupported(model, supported) == model \notin Range(supported)

\* repr() of a list of strings, as text pieces.
RECURSIVE ReprItems(_, _)
ReprItems(ids, i) ==
    IF i > Len(ids) THEN <<>>
    ELSE (IF i > 1 THEN <<", ">> ELSE <<>>) \o <<"'", ids[i], "'">> \o ReprItems(ids, i + 1)

ReprList(ids) == <<"[">> \o ReprItems(ids, 1) \o <<"]">>

UnsupportedModelError(model, supported) ==
    Raised("LookupError",
           <<"Model '", model, "' is not supported. Available models: ">>
               \o ReprList(supported),
           None)

\* A client that looks the key up in the environment at each call.
OpenAIKeyFromEnv(t) == env["OPENAI_API_KEY"]

\* The credential a network call is made with: the OpenAI client holds the
\* key it was built with; genai's calls use the key stored by configure().
OpenAIKey(t) == client_key[t]

KeyUsed(t) == IF call[t].fn = "get_openai_output" THEN OpenAIKey(t) ELSE genai_api_key

\* f"data:image/jpeg;base64,{image_base64}"
ImageUrl(image_base64) == <<"data:image/jpeg;base64,">> \o image_base64

OpenAIRequest(c, image_url) ==
    [ model      |-> c.model,
      messages   |-> << [ role    |-> "user",
                          content |-> << [type |-> "text", text |-> c.prompt],
                                         [type |-> "image_url",
                                          image_url |-> [url |-> image_url]] >> ] >>,
      max_tokens |-> c.max_tokens ]

GeminiRequest(c) == [model_name |-> c.model, contents |-> <<c.prompt, c.pil_image>>]

\* The replies a successful generate-content call may give.
OpenAIResponses(texts) ==
    { [choices |-> <<>>] }
        \cup { [choices |-> << [message |-> [content |-> x]] >>] : x \in texts }
        \cup { [choices |-> << [message |-> [content |-> "hello"]],
                               [message |-> [content |-> "second"]] >>] }

GeminiResponses(texts) ==
    { [text |-> Returned(x)] : x \in texts \ {None} }
        \cup { [text |-> Raised("ValueError", <<"response has no valid part">>, None)] }

\* str.strip() on the completions of Texts.
Stripped(x) == IF x = " hi " THEN "hi" ELSE x

\* The text with its surrounding blanks removed.
ExtractTextStripped(fn, resp) ==
    IF fn = "get_openai_output"
    THEN IF Len(resp.choices) = 0
         THEN Raised("IndexError", <<"list index out of range">>, None)
         ELSE Returned(Stripped(resp.choices[1].message.content))
    ELSE IF resp.text.kind = "return" THEN Returned(Stripped(resp.text.value)) ELSE resp.text

\* response.choices[0].message.content / response.text
ExtractText(fn, resp) ==
    IF fn = "get_openai_output"
    THEN IF Len(resp.choices) = 0
         THEN Raised("IndexError", <<"list index out of range">>, None)
         ELSE Returned(resp.choices[1].message.content)
    ELSE resp.text

\* A failed call issued a second time.
AttemptsWithRetry(entry) == IF entry.result.kind = "raise" THEN <<entry, entry>> ELSE <<entry>>

\* One call is issued, whatever its result.
Attempts(entry) == <<entry>>

Finish(t, result, step, e) ==
    /\ pc' = [pc EXCEPT ![t] = "done"]
    /\ outcome' = [outcome EXCEPT ![t] = result]
    /\ failed_at' = [failed_at EXCEPT ![t] = [step |-> step, type |-> e.type, msg |-> e.msg]]

\* A caller invokes one of the two functions.
Call(t, models, prompts, images, tokenArgs) ==
    /\ pc[t] = "idle"
    /\ \E fn \in Functions, im \in images, p \in prompts, m \in models, g \in tokenArgs :
          /\ fn = "get_gemini_output" => g = <<>>
          /\ call' = [call EXCEPT ![t] =
                 [fn |-> fn, pil_image |-> im, prompt |-> p, model |-> m,
                  max_tokens |-> BindMaxTokens(g), given |-> g]]
    /\ pc' = [pc EXCEPT ![t] = "start"]
    /\ UNCHANGED <<env, catalog, genai_api_key, api_key, client_key, supported_models,
                   outcome, failed_at, listCalls, genCalls, encVars>>

\* api_key = os.environ.get(...); if not api_key: raise EnvironmentError(...)
GetEnv(t) ==
    /\ pc[t] = "start"
    /\ LET k == env[EnvVar(call[t].fn)] IN
          /\ api_key' = [api_key EXCEPT ![t] = k]
          /\ IF MissingKey(k)
             THEN Finish(t, MissingKeyError(call[t].fn), "credential",
                         MissingKeyError(call[t].fn))
             ELSE /\ pc' = [pc EXCEPT ![t] = "client"]
                  /\ UNCHANGED <<outcome, failed_at>>
    /\ UNCHANGED <<env, catalog, genai_api_key, call, client_key, supported_models,
                   listCalls, genCalls, encVars>>

\* client = OpenAI(api_key=api_key) / genai.configure(api_key=api_key, ...)
MakeClient(t) ==
    /\ pc[t] = "client"
    /\ IF call[t].fn = "get_openai_output"
       THEN /\ client_key' = [client_key EXCEPT ![t] = api_key[t]]
            /\ UNCHANGED genai_api_key
       ELSE /\ genai_api_key' = api_key[t]
            /\ UNCHANGED client_key
    /\ pc' = [pc EXCEPT ![t] = "list"]
    /\ UNCHANGED <<env, catalog, call, api_key, supported_models, outcome, failed_at,
                   listCalls, genCalls, encVars>>

\* The list-models call and the membership test that follows it.
ListModels(t, errors) ==
    /\ pc[t] = "list"
    /\ \E result \in {Returned(ModelInfos(LiveCatalog(call[t].fn)))}
                        \cup {Raised(e.type, e.msg, <<>>) : e \in errors} :
          /\ listCalls' = [listCalls EXCEPT ![t] =
                 @ \o Attempts([key |-> KeyUsed(t), result |-> result])]
          /\ IF result.kind = "raise"
             THEN /\ Finish(t, Handler(call[t].fn, Raised(result.type, result.msg, None)),
                            "list", result)
                  /\ UNCHANGED supported_models
             ELSE /\ supported_models' = [supported_models EXCEPT ![t] = ModelIds(result.value)]
                  /\ IF NotSupported(call[t].model, ModelIds(result.value))
                     THEN Finish(t,
                              Handler(call[t].fn,
                                  UnsupportedModelError(call[t].model, ModelIds(result.value))),
                              "validate",
                              UnsupportedModelError(call[t].model, ModelIds(result.value)))
                     ELSE /\ pc' = [pc EXCEPT ![t] = "generate"]
                          /\ UNCHANGED <<outcome, failed_at>>
    /\ UNCHANGED <<env, catalog, genai_api_key, call, api_key, client_key, genCalls, encVars>>

\* The request, the generate-content call and the unwrapping of its reply.
Send(t, request, errors, responses) ==
    \E result \in {Returned(r) : r \in responses}
                     \cup {Raised(e.type, e.msg, NoResponse) : e \in errors} :
       /\ genCalls' = [genCalls EXCEPT ![t] =
              @ \o Attempts([key |-> KeyUsed(t), request |-> request, result |-> result])]
       /\ IF result.kind = "raise"
          THEN Finish(t, Handler(call[t].fn, Raised(result.type, result.msg, None)),
                      "generate", result)
          ELSE LET text == ExtractText(call[t].fn, result.value) IN
               IF text.kind = "raise"
               THEN Finish(t, Handler(call[t].fn, text), "generate", text)
               ELSE Finish(t, text, "-", NoFailure)

Generate(t, errors, texts) ==
    /\ pc[t] = "generate"
    /\ IF call[t].fn = "get_openai_output"
       THEN LET image_base64 == pil2base64(call[t].pil_image) IN
            IF image_base64.kind = "raise"
            THEN /\ Finish(t, Handler(call[t].fn,
                               Raised(image_base64.type, image_base64.msg, None)),
                           "encode", image_base64)
                 /\ UNCHANGED genCalls
            ELSE Send(t, OpenAIRequest(call[t], ImageUrl(image_base64.value)),
                      errors, OpenAIResponses(texts))
       ELSE Send(t, GeminiRequest(call[t]), errors, GeminiResponses(texts))
    /\ UNCHANGED <<env, catalog, genai_api_key, call, api_key, client_key,
                   supported_models, listCalls, encVars>>

\* The caller has the result; the frame and its locals are gone.
Return(t) ==
    /\ pc[t] = "done"
    /\ pc' = [pc EXCEPT ![t] = "idle"]
    /\ call' = [call EXCEPT ![t] = NoCall]
    /\ api_key' = [api_key EXCEPT ![t] = None]
    /\ client_key' = [client_key EXCEPT ![t] = None]
    /\ supported_models' = [supported_models EXCEPT ![t] = <<>>]
    /\ outcome' = [outcome EXCEPT ![t] = NoOutcome]
    /\ failed_at' = [failed_at EXCEPT ![t] = NoFailure]
    /\ listCalls' = [listCalls EXCEPT ![t] = <<>>]
    /\ genCalls' = [genCalls EXCEPT ![t] = <<>>]
    /\ UNCHANGED <<env, catalog, genai_api_key, encVars>>

\* Other code of the process sets or unsets a credential variable.
SetEnv(values) ==
    /\ \E var \in EnvVars, v \in values :
          /\ env[var] # v
          /\ env' = [env EXCEPT ![var] = v]
    /\ UNCHANGED <<catalog, genai_api_key, pc, call, api_key, client_key, supported_models,
                   outcome, failed_at, listCalls, genCalls, encVars>>

\* A provider adds a model to its catalog or withdraws one.
CatalogChange ==
    /\ \E fn \in Functions, c \in Catalogs :
          /\ catalog[fn] # c
          /\ catalog' = [catalog EXCEPT ![fn] = c]
    /\ UNCHANGED <<env, genai_api_key, pc, call, api_key, client_key, supported_models,
                   outcome, failed_at, listCalls, genCalls, encVars>>

-----------------------------------------------------------------------------
(* Specifications *)

InitQuery ==
    /\ env = [v \in EnvVars |-> None]
    /\ catalog = [fn \in Functions |-> StartCatalog]
    /\ genai_api_key = Unconfigured
    /\ pc = [t \in Threads |-> "idle"]
    /\ call = [t \in Threads |-> NoCall]
    /\ api_key = [t \in Threads |-> None]
    /\ client_key = [t \in Threads |-> None]
    /\ supported_models = [t \in Threads |-> <<>>]
    /\ outcome = [t \in Threads |-> NoOutcome]
    /\ failed_at = [t \in Threads |-> NoFailure]
    /\ listCalls = [t \in Threads |-> <<>>]
    /\ genCalls = [t \in Threads |-> <<>>]

Init ==
    /\ InitQuery
    /\ bitmap = GoodImage
    /\ encoded = NotEncoded

\* One caller, one call after the other, every input and every fault.
Next ==
    \/ Call("t1", Models, Prompts, QueryImages, TokenArgs)
    \/ GetEnv("t1")
    \/ MakeClient("t1")
    \/ ListModels("t1", VendorErrors)
    \/ Generate("t1", VendorErrors, Texts)
    \/ Return("t1")
    \/ SetEnv(EnvValues)
    \/ CatalogChange

Spec == Init /\ [][Next]_vars

\* Two callers whose calls interleave, while credentials and catalogs change.
InterleavedErrors == {[type |-> "ConnectionError", msg |-> <<"connection refused">>]}

NextInterleaved ==
    \/ \E t \in Threads :
          \/ Call(t, {"m1", "m2"}, {"describe"}, {GoodImage}, {<<>>})
          \/ GetEnv(t)
          \/ MakeClient(t)
          \/ ListModels(t, InterleavedErrors)
          \/ Generate(t, InterleavedErrors, {"hello"})
          \/ Return(t)
    \/ SetEnv(Keys)
    \/ CatalogChange

SpecInterleaved == Init /\ [][NextInterleaved]_vars

-----------------------------------------------------------------------------
(* The encoder alone *)

PixelValues(mode) ==
    CASE mode = "L"    -> {<<0>>, <<128>>, <<255>>}
      [] mode = "RGB"  -> {<<0, 0, 0>>, <<255, 128, 7>>}
      [] mode = "I"    -> {<<0>>, <<65535>>, <<65536>>, <<-1>>}
      [] mode = "CMYK" -> {<<0, 0, 0, 255>>}
      [] mode = "F"    -> {<<1>>}

Modes == {"L", "RGB", "I", "CMYK", "F"}

Sizes == {<<w, h>> \in (1..MaxPixels) \X (1..MaxPixels) : w * h <= MaxPixels}

Bitmaps ==
    UNION { UNION { { [mode |-> m, size |-> s, data |-> d] :
                          d \in [1..(s[1] * s[2]) -> PixelValues(m)] } : s \in Sizes } :
            m \in Modes }

InitEnc ==
    /\ InitQuery
    /\ bitmap \in Bitmaps
    /\ encoded = NotEncoded

Encode ==
    /\ encoded.kind = "none"
    /\ encoded' = pil2base64(bitmap)
    /\ UNCHANGED <<bitmap, queryVars>>

NextEnc == Encode

SpecEnc == InitEnc /\ [][NextEnc]_vars

-----------------------------------------------------------------------------
(* Reading the record of a call *)

ListReturned(t) ==
    /\ Len(listCalls[t]) >= 1
    /\ listCalls[t][1].result.kind = "return"

\* The identifiers of the catalog the call's list-models request returned.
FetchedIds(t) ==
    LET infos == listCalls[t][1].result.value
    IN  [i \in 1..Len(infos) |-> infos[i].id]

FetchedHas(t, model) == \E i \in 1..Len(FetchedIds(t)) : FetchedIds(t)[i] = model

Contains(s, sub) ==
    \E i \in 0..(Len(s) - Len(sub)) : SubSeq(s, i + 1, i + Len(sub)) = sub

IsIdPiece(x) == x \notin {"[", "]", "'", ", "}

\* The identifiers listed after "Available models: " in a message.
CatalogIn(msg) ==
    IF Len(msg) >= 3 /\ msg[3] = "' is not supported. Available models: "
    THEN SelectSeq(SubSeq(msg, 4, Len(msg)), IsIdPiece)
    ELSE <<"?">>

GenerateReturned(t) ==
    /\ Len(genCalls[t]) >= 1
    /\ genCalls[t][1].result.kind = "return"

HasText(t) ==
    LET resp == genCalls[t][1].result.value
    IN  IF call[t].fn = "get_openai_output" THEN Len(resp.choices) >= 1
        ELSE resp.text.kind = "return"

TextField(t) ==
    LET resp == genCalls[t][1].result.value
    IN  IF call[t].fn = "get_openai_output" THEN resp.choices[1].message.content
        ELSE resp.text.value

-----------------------------------------------------------------------------
(* Claims about the query functions *)

\* C1: an exception raised by the generate-content call or by the unwrapping
\* of its reply, whatever its type, reaches the caller as a RuntimeError
\* whose message contains the original message.
C1_GenerateFailureIsRuntimeError ==
    \A t \in Threads :
        failed_at[t].step = "generate" =>
            /\ outcome[t].kind = "raise"
            /\ outcome[t].type = "RuntimeError"
            /\ Contains(outcome[t].msg, failed_at[t].msg)

\* C2: with the credential missing the call raises EnvironmentError, and no
\* list-models call, no generate-content call, no client construction and no
\* configuration has happened.
C2_MissingCredentialNoNetwork ==
    \A t \in Threads :
        (pc[t] \notin {"idle", "start"} /\ api_key[t] \in {None, ""}) =>
            /\ pc[t] = "done"
            /\ outcome[t].kind = "raise"
            /\ outcome[t].type = "OSError"
            /\ listCalls[t] = <<>>
            /\ genCalls[t] = <<>>
            /\ client_key[t] = None
            /\ genai_api_key \notin {None, ""}

C2_Witness ==
    \E t \in Threads :
        /\ pc[t] = "done"
        /\ api_key[t] = None
        /\ outcome[t].type = "OSError"
        /\ listCalls[t] = <<>>

\* C3: when the list-models call succeeded and the requested model is not in
\* the catalog it returned, the call raises LookupError itself (not wrapped),
\* its message lists that catalog in the same order, and no generate-content
\* call is issued.
C3_UnsupportedModelRaisesLookupError ==
    \A t \in Threads :
        (ListReturned(t) /\ ~FetchedHas(t, call[t].model)) =>
            /\ pc[t] = "done"
            /\ outcome[t].kind = "raise"
            /\ outcome[t].type = "LookupError"
            /\ CatalogIn(outcome[t].msg) = FetchedIds(t)
            /\ genCalls[t] = <<>>

C3_Witness ==
    \E t \in Threads :
        /\ ListReturned(t)
        /\ Len(FetchedIds(t)) = 2
        /\ ~FetchedHas(t, call[t].model)
        /\ outcome[t].type = "LookupError"

\* C4: a call ends with an error of the LookupError kind only when the
\* requested model was absent from the catalog fetched by that call.
C4_LookupErrorOnlyForAbsentModel ==
    \A t \in Threads :
        (outcome[t].kind = "raise" /\ IsInstance(outcome[t].type, "LookupError")) =>
            /\ ListReturned(t)
            /\ ~FetchedHas(t, call[t].model)

\* C5: when the generate-content call succeeded, the value returned to the
\* caller is exactly the text field of the reply, also when it is empty,
\* blank or None.
C5_ReturnsTextVerbatim ==
    \A t \in Threads :
        (GenerateReturned(t) /\ HasText(t)) =>
            /\ pc[t] = "done"
            /\ outcome[t] = Returned(TextField(t))

C5_Witness ==
    \E t \in Threads :
        /\ GenerateReturned(t)
        /\ HasText(t)
        /\ TextField(t) = " hi "
        /\ outcome[t].kind = "return"

\* C9: a call is one pass through credential check, list-models call,
\* membership test, generate-content call: at most one call of each kind, a
\* generate-content call only after the credential was found, the catalog
\* returned and the model found in it, and nothing after the first failure.
C9_LinearNoRetry ==
    \A t \in Threads :
        /\ Len(listCalls[t]) <= 1
        /\ Len(genCalls[t]) <= 1
        /\ listCalls[t] # <<>> => api_key[t] \in Keys
        /\ genCalls[t] # <<>> =>
              /\ api_key[t] \in Keys
              /\ ListReturned(t)
              /\ FetchedHas(t, call[t].model)
        /\ failed_at[t].step # "-" => (pc[t] = "done" /\ outcome[t].kind = "raise")
        /\ failed_at[t].step = "credential" => (listCalls[t] = <<>> /\ genCalls[t] = <<>>)
        /\ failed_at[t].step \in {"list", "validate", "encode"} =>
              (Len(listCalls[t]) = 1 /\ genCalls[t] = <<>>)
        /\ outcome[t].kind = "return" =>
              (pc[t] = "done" /\ Len(listCalls[t]) = 1 /\ Len(genCalls[t]) = 1)

C9_Witness ==
    \E t \in Threads :
        /\ failed_at[t].step = "generate"
        /\ Len(listCalls[t]) = 1
        /\ Len(genCalls[t]) = 1

\* C10: the request of get_openai_output has one user message holding the
\* prompt as a text part and then an image part whose data URI declares the
\* format of the data it embeds, PNG; model and max_tokens are the caller's,
\* max_tokens being 300 when the caller gives none.
C10_RequestShape ==
    \A t \in Threads :
        (call[t].fn = "get_openai_output" /\ genCalls[t] # <<>>) =>
            LET r == genCalls[t][1].request
                content == r.messages[1].content
            IN  /\ Len(r.messages) = 1
                /\ r.messages[1].role = "user"
                /\ Len(content) = 2
                /\ content[1].type = "text"
                /\ content[1].text = call[t].prompt
                /\ content[2].type = "image_url"
                /\ content[2].image_url.url =
                       <<"data:image/png;base64,">> \o pil2base64(call[t].pil_image).value
                /\ r.model = call[t].model
                /\ r.max_tokens = IF call[t].given = <<>> THEN 300 ELSE call[t].given[1]

-----------------------------------------------------------------------------
(* Claims about calls that interleave *)

\* C6: every call that has a credential issues its own list-models call,
\* what that call returns is the provider's catalog at that moment, and the
\* model is accepted or rejected by that catalog alone.
C6_FetchedPerCall ==
    /\ [](\A t \in Threads :
            (pc[t] \in {"generate", "done"} /\ api_key[t] \in Keys) =>
                /\ Len(listCalls[t]) = 1
                /\ ListReturned(t) =>
                      /\ supported_models[t] = FetchedIds(t)
                      /\ FetchedHas(t, call[t].model) <=> failed_at[t].step # "validate")
    /\ [][\A t \in Threads :
            (pc[t] = "list" /\ pc'[t] # "list") =>
                /\ Len(listCalls'[t]) = 1
                /\ listCalls'[t][1].result.kind = "return" =>
                      [i \in 1..Len(listCalls'[t][1].result.value) |->
                          listCalls'[t][1].result.value[i].id] = catalog[call[t].fn]]_vars

C6_Witness ==
    \E t, u \in Threads :
        /\ t # u
        /\ call[t].fn = call[u].fn
        /\ call[t].model = call[u].model
        /\ failed_at[t].step = "validate"
        /\ pc[u] = "generate"

AllCallKeys(t) ==
    {listCalls[t][i].key : i \in 1..Len(listCalls[t])}
        \cup {genCalls[t][i].key : i \in 1..Len(genCalls[t])}

\* C7 as stated: a call leaves process-wide state as it was, and every
\* network call is made with the credential that same call read.
C7_NoSharedState ==
    /\ genai_api_key = Unconfigured
    /\ \A t \in Threads : AllCallKeys(t) \subseteq {api_key[t]}

\* C7, amended: get_openai_output leaves process-wide state as it was and its
\* network calls use the credential it read itself; get_gemini_output stores
\* the credential it read in genai's process-wide configuration, and its
\* network calls use the credential stored there when they are made.
C7_SharedOnlyThroughGenai ==
    /\ [](\A t \in Threads :
            call[t].fn = "get_openai_output" => AllCallKeys(t) \subseteq {api_key[t]})
    /\ [][genai_api_key' # genai_api_key =>
            \E t \in Threads :
                /\ call[t].fn = "get_gemini_output"
                /\ pc[t] = "client"
                /\ pc'[t] = "list"
                /\ genai_api_key' = api_key[t]]_vars
    /\ [][\A t \in Threads :
            call[t].fn = "get_gemini_output" =>
                /\ Len(listCalls'[t]) > Len(listCalls[t]) =>
                      listCalls'[t][Len(listCalls'[t])].key = genai_api_key
                /\ Len(genCalls'[t]) > Len(genCalls[t]) =>
                      genCalls'[t][Len(genCalls'[t])].key = genai_api_key]_vars

C7_Witness ==
    \E t, u \in Threads :
        /\ call[t].fn = "get_openai_output"
        /\ call[u].fn = "get_openai_output"
        /\ api_key[t] = "k1"
        /\ api_key[u] = "k2"
        /\ genCalls[t] # <<>>
        /\ genCalls[u] # <<>>

-----------------------------------------------------------------------------
(* Claims about the encoder *)

B64Value(c) == IF c = "=" THEN 0 ELSE (CHOOSE i \in 1..64 : B64Alphabet[i] = c) - 1

RECURSIVE b64decode(_)
b64decode(chars) ==
    IF Len(chars) < 4 THEN <<>>
    ELSE LET v1 == B64Value(chars[1])
             v2 == B64Value(chars[2])
             v3 == B64Value(chars[3])
             v4 == B64Value(chars[4])
             all == << v1 * 4 + (v2 \div 16), (v2 % 16) * 16 + (v3 \div 4), (v3 % 4) * 64 + v4 >>
             n == IF chars[3] = "=" THEN 1 ELSE IF chars[4] = "=" THEN 2 ELSE 3
         IN  SubSeq(all, 1, n) \o b64decode(SubSeq(chars, 5, Len(chars)))

\* Reads back what a PNG decoder gives for the bytes: size and pixels.
PngDecode(bytes) ==
    LET BE(at) == bytes[at] * 16777216 + bytes[at + 1] * 65536 + bytes[at + 2] * 256 + bytes[at + 3]
        w == BE(9)
        h == BE(13)
        bps == bytes[17] \div 8
        bands == IF bytes[18] = 2 THEN 3 ELSE 1
        rowlen == 1 + w * bands * bps
        Sample(at) == IF bps = 1 THEN bytes[at] ELSE bytes[at] * 256 + bytes[at + 1]
        Pixel(k) ==
            LET at == 18 + (k \div w) * rowlen + 1 + (k % w) * bands * bps
            IN  [b \in 1..bands |-> Sample(at + 1 + (b - 1) * bps)]
    IN  [ png  |-> SubSeq(bytes, 1, 8) = PngSignature,
          size |-> <<w, h>>,
          data |-> [k \in 1..(w * h) |-> Pixel(k - 1)] ]

RoundTrips(im, enc) ==
    /\ enc.kind = "return"
    /\ PngDecode(b64decode(enc.value)).png
    /\ PngDecode(b64decode(enc.value)).size = im.size
    /\ PngDecode(b64decode(enc.value)).data = im.data

Serializable(im) == im.mode \in {"L", "RGB", "I"}

\* C8 as stated: decoding what pil2base64 gives for a bitmap yields the
\* bitmap's pixels, and a bitmap that cannot be serialized gives RuntimeError.
C8_RoundTrip ==
    encoded.kind # "none" =>
        IF Serializable(bitmap)
        THEN RoundTrips(bitmap, encoded)
        ELSE encoded.kind = "raise" /\ encoded.type = "RuntimeError"

SamplesFit(im) ==
    im.mode = "I" => \A k \in 1..Len(im.data) : im.data[k][1] \in 0..65535

\* C8, amended: the round trip gives back the pixels of every bitmap of a
\* mode PNG stores whose samples fit the stored width (0..65535 for the
\* 32-bit mode I); a bitmap that cannot be serialized gives RuntimeError.
C8_RoundTripWhenSamplesFit ==
    encoded.kind # "none" =>
        IF Serializable(bitmap)
        THEN SamplesFit(bitmap) => RoundTrips(bitmap, encoded)
        ELSE encoded.kind = "raise" /\ encoded.type = "RuntimeError"

C8_Witness ==
    /\ encoded.kind = "return"
    /\ bitmap.mode = "I"
    /\ Len(bitmap.data) = 2
    /\ bitmap.data[1] = <<65535>>
    /\ RoundTrips(bitmap, encoded)

=============================================================================
